---- MODULE Spec2Model ----
(***************************************************************************)
(* The resource-request lifecycle of server.js: the hospitals and requests *)
(* collections, and the Express handlers that create, accept, reject,      *)
(* cancel and finalize requests and delete hospitals.  Every `await` of a  *)
(* handler is a point where other handlers may run, so a handler is one    *)
(* action per awaited store operation; the synchronous code after an await *)
(* belongs to the action of that await.                                    *)
(***************************************************************************)
EXTENDS Integers, Sequences, FiniteSets, TLC

(***************************************************************************)
(* Bounds of the model.                                                    *)
(***************************************************************************)
\* Requests ever created (ObjectIds are never reused).
MaxRequests == 1
\* Handlers suspended at an await at the same time.
MaxInFlight == 2
\* HTTP calls in one behaviour.
MaxCalls == 3

(***************************************************************************)
(* The schemas' enumerations.                                              *)
(***************************************************************************)
BloodGroups == {"A+", "A-", "B+", "B-", "AB+", "AB-", "O+", "O-"}

OrganNames == {"Kidney", "Liver", "Heart", "Lung", "Pancreas", "Cornea"}

RequestTypes == {"Oxygen", "Blood", "Organ"}

Statuses == {"Open", "Accepted", "Closed", "Rejected"}

\* A path that is undefined in a document or a request body.
NULL == "null"

(***************************************************************************)
(* Identities.  A session outlives the document it was issued for.         *)
(***************************************************************************)
HospitalIds == {"h1", "h2", "h3"}

AdminId == "admin"

RequestIds == 1..MaxRequests

\* req.session of a client that logged in.
Sessions ==
    [userId : HospitalIds, userType : {"hospital"}]
        \cup {[userId |-> AdminId, userType |-> "admin"]}

HospitalSessions == {session \in Sessions : session.userType = "hospital"}

\* req.session of a client that did not.
NoSession == [userId |-> NULL, userType |-> NULL]

isAuthenticated(session) == session.userId # NULL

(***************************************************************************)
(* Responses: the HTTP status and the message of res.status().json().      *)
(***************************************************************************)
Resp(status, message) == [status |-> status, message |-> message]

Unauthorized == Resp(401, "Unauthorized")

AccessDenied == Resp(403, "Access denied.")

RequestNotFound == Resp(404, "Request not found.")

NoLongerOpen == Resp(400, "This request is no longer open.")

CannotAcceptOwn == Resp(400, "You cannot accept your own request.")

CannotRejectOwn == Resp(400, "You cannot reject your own request.")

NotAuthorized == Resp(403, "Not authorized")

\* finalize's refusal ends with a full stop.
FinalizeNotAuthorized == Resp(403, "Not authorized.")

InvalidFinalStatus == Resp(400, "Invalid status. Only successful fulfillment is allowed.")

HospitalNotFound == Resp(404, "Hospital not found.")

ServerError == Resp(500, "Server error")

RequestPosted == Resp(201, "Request posted successfully")

RequestAccepted == Resp(200, "Request accepted! Your inventory has been updated.")

RequestRejected == Resp(200, "Request has been rejected.")

RequestCancelled == Resp(200, "Request has been cancelled.")

RequestFinalized == Resp(200, "Request has been marked as successfully fulfilled.")

HospitalDeleted == Resp(200, "Hospital and associated data deleted successfully.")

\* The response as the client of a route sees it.
Sent(route, resp) == [route |-> route, status |-> resp.status, message |-> resp.message]

NoResponse == Sent("none", Resp(0, ""))

(***************************************************************************)
(* Documents.                                                              *)
(***************************************************************************)
Offer(organName, bloodGroup, age) ==
    [organName |-> organName, bloodGroup |-> bloodGroup, age |-> age]

\* HospitalSchema.details with the inventory given.
HospitalDoc(oxygen, oPositive, organs) ==
    [oxygenCylinders |-> oxygen,
     bloodAvailability |-> [g \in BloodGroups |-> IF g = "O+" THEN oPositive ELSE 0],
     organAvailability |-> organs]

\* new Request({...req.body, requestingHospital: req.session.userId}): the
\* body's own requestingHospital is overwritten, its status and
\* providingHospital are kept, and the schema's default fills a missing status.
NewRequest(body, userId) ==
    [requestingHospital |-> userId,
     providingHospital |-> body.providingHospital,
     requestType |-> body.requestType,
     status |-> IF body.status = NULL THEN "Open" ELSE body.status,
     details |-> body.details]

\* The schema's validation at save(): required paths and enumerations.
ValidRequest(body) ==
    /\ body.requestType \in RequestTypes
    /\ body.status \in Statuses \cup {NULL}
    /\ body.description # NULL

(***************************************************************************)
(* Store operations, on the value of a collection.                         *)
(***************************************************************************)
RECURSIVE Pull(_, _, _)
\* $pull: every element of the array that matches the condition is removed.
Pull(offers, organName, bloodGroup) ==
    IF offers = << >> THEN << >>
    ELSE IF Head(offers).organName = organName /\ Head(offers).bloodGroup = bloodGroup
         THEN Pull(Tail(offers), organName, bloodGroup)
         ELSE <<Head(offers)>> \o Pull(Tail(offers), organName, bloodGroup)

NoUpdate == [op |-> "none"]

\* AcceptUpdate with the minus sign of `-request.details.quantity` forgotten.
AcceptUpdateNoNegation(request) ==
    CASE request.requestType = "Blood" ->
           [op |-> "incBlood", bloodGroup |-> request.details.bloodGroup,
            by |-> request.details.quantity]
      [] request.requestType = "Oxygen" ->
           [op |-> "incOxygen", by |-> request.details.quantity]
      [] request.requestType = "Organ" ->
           [op |-> "pullOrgan", organName |-> request.details.organName,
            bloodGroup |-> request.details.bloodGroup]
      [] OTHER -> NoUpdate

\* The update document the accept handler builds from the request it read.
AcceptUpdate(request) ==
    CASE request.requestType = "Blood" ->
           [op |-> "incBlood", bloodGroup |-> request.details.bloodGroup,
            by |-> 0 - request.details.quantity]
      [] request.requestType = "Oxygen" ->
           [op |-> "incOxygen", by |-> 0 - request.details.quantity]
      [] request.requestType = "Organ" ->
           [op |-> "pullOrgan", organName |-> request.details.organName,
            bloodGroup |-> request.details.bloodGroup]
      [] OTHER -> NoUpdate

\* One hospital document after the update: $inc adds without a floor.
ApplyUpdate(doc, update) ==
    CASE update.op = "incBlood" ->
           [doc EXCEPT !.bloodAvailability[update.bloodGroup] = @ + update.by]
      [] update.op = "incOxygen" ->
           [doc EXCEPT !.oxygenCylinders = @ + update.by]
      [] update.op = "pullOrgan" ->
           [doc EXCEPT !.organAvailability = Pull(@, update.organName, update.bloodGroup)]
      [] OTHER -> doc

\* Hospital.findByIdAndUpdate(id, update): nothing happens when no document
\* has the id (no upsert).
HospitalFindByIdAndUpdate(hs, id, update) ==
    IF id \in DOMAIN hs THEN [hs EXCEPT ![id] = ApplyUpdate(@, update)] ELSE hs

\* Hospital.findByIdAndDelete(id).
HospitalFindByIdAndDelete(hs, id) == [h \in DOMAIN hs \ {id} |-> hs[h]]

\* RequestSetStatusAndProvider as it would be with the option {upsert: true}.
RequestUpsertStatusAndProvider(rs, id, status, provider) ==
    IF id \in DOMAIN rs
    THEN [rs EXCEPT ![id].status = status, ![id].providingHospital = provider]
    ELSE rs @@ (id :> [requestingHospital |-> NULL, providingHospital |-> provider,
                       requestType |-> NULL, status |-> status,
                       details |-> [quantity |-> 0]])

\* Request.findByIdAndUpdate(id, {status, providingHospital}).
RequestSetStatusAndProvider(rs, id, status, provider) ==
    IF id \in DOMAIN rs
    THEN [rs EXCEPT ![id].status = status, ![id].providingHospital = provider]
    ELSE rs

\* Request.findByIdAndUpdate(id, {status}).
RequestSetStatus(rs, id, status) ==
    IF id \in DOMAIN rs THEN [rs EXCEPT ![id].status = status] ELSE rs

\* Request.findByIdAndDelete(id).
RequestFindByIdAndDelete(rs, id) == [r \in DOMAIN rs \ {id} |-> rs[r]]

\* Request.deleteMany({$or: [{requestingHospital: id}, {providingHospital: id}]}).
RequestDeleteMany(rs, id) ==
    [r \in {x \in DOMAIN rs : rs[x].requestingHospital # id
                              /\ rs[x].providingHospital # id} |-> rs[r]]

(***************************************************************************)
(* The handlers' checks on the request they read.                          *)
(***************************************************************************)
\* AcceptCheck without the line that refuses the requester.
AcceptCheckSelfAllowed(rs, id, userId) ==
    IF id \notin DOMAIN rs THEN RequestNotFound
    ELSE IF rs[id].status # "Open" THEN NoLongerOpen
    ELSE RequestAccepted

\* AcceptCheck without the line that refuses a request that is not Open.
AcceptCheckAnyStatus(rs, id, userId) ==
    IF id \notin DOMAIN rs THEN RequestNotFound
    ELSE IF rs[id].requestingHospital = userId THEN CannotAcceptOwn
    ELSE RequestAccepted

\* accept: the checks on the request findById returned.
AcceptCheck(rs, id, userId) ==
    IF id \notin DOMAIN rs THEN RequestNotFound
    ELSE IF rs[id].status # "Open" THEN NoLongerOpen
    ELSE IF rs[id].requestingHospital = userId THEN CannotAcceptOwn
    ELSE RequestAccepted

\* reject: the checks on the request findById returned.
RejectCheck(rs, id, userId) ==
    IF id \notin DOMAIN rs THEN RequestNotFound
    ELSE IF rs[id].status # "Open" THEN NoLongerOpen
    ELSE IF rs[id].requestingHospital = userId THEN CannotRejectOwn
    ELSE RequestRejected

\* CancelCheck without the line that refuses everyone but the requester.
CancelCheckAnyone(rs, id, userId) ==
    IF id \notin DOMAIN rs THEN RequestNotFound
    ELSE RequestCancelled

\* cancel: the checks on the request findById returned.
CancelCheck(rs, id, userId) ==
    IF id \notin DOMAIN rs THEN RequestNotFound
    ELSE IF rs[id].requestingHospital # userId THEN NotAuthorized
    ELSE RequestCancelled

\* FinalizeCheck without the line that refuses everyone but the requester.
FinalizeCheckAnyone(rs, id, userId, finalStatus) ==
    IF id \notin DOMAIN rs THEN RequestNotFound
    ELSE IF finalStatus # "Closed" THEN InvalidFinalStatus
    ELSE RequestFinalized

\* finalize: the checks on the request findById returned and on finalStatus.
FinalizeCheck(rs, id, userId, finalStatus) ==
    IF id \notin DOMAIN rs THEN RequestNotFound
    ELSE IF rs[id].requestingHospital # userId THEN FinalizeNotAuthorized
    ELSE IF finalStatus # "Closed" THEN InvalidFinalStatus
    ELSE RequestFinalized

(***************************************************************************)
(* Request bodies the clients send.                                        *)
(***************************************************************************)
Quantity == 3

DraftDetails ==
    {[requestType |-> "Blood", details |-> [bloodGroup |-> "O+", quantity |-> Quantity]],
     [requestType |-> "Oxygen", details |-> [quantity |-> Quantity]],
     [requestType |-> "Organ", details |-> [organName |-> "Kidney", bloodGroup |-> "O+"]]}

BloodDrafts == {d \in DraftDetails : d.requestType = "Blood"}

OxygenDrafts == {d \in DraftDetails : d.requestType = "Oxygen"}

\* req.body of POST /api/requests as the client's form sends it.
PlainBody(d) ==
    [requestType |-> d.requestType, details |-> d.details, status |-> NULL,
     providingHospital |-> NULL, requestingHospital |-> NULL, description |-> "text"]

FormBodies == {PlainBody(d) : d \in DraftDetails}

DraftStatuses == {NULL, "Closed"}

DraftProviders == {NULL, "h1"}

DraftRequesters == {NULL, "h3"}

\* Any client's bodies: the form's, those that set status, providingHospital
\* or requestingHospital themselves, and one without the required description.
Bodies ==
    FormBodies
    \cup {[PlainBody(d) EXCEPT !.status = st, !.providingHospital = p,
                               !.requestingHospital = q] :
            d \in BloodDrafts, st \in DraftStatuses, p \in DraftProviders,
            q \in DraftRequesters}
    \cup {[PlainBody(d) EXCEPT !.description = NULL] : d \in OxygenDrafts}

\* finalStatus of POST /api/requests/finalize.
FinalStatuses == {"Closed", "Rejected"}

(***************************************************************************)
(* State.                                                                  *)
(***************************************************************************)
VARIABLES
    hospitals,   \* the hospitals collection: _id -> details
    requests,    \* the requests collection: _id -> document
    nextId,      \* the _id the next saved request gets
    inflight,    \* the handlers suspended at an await, by slot
    calls,       \* HTTP calls received
    lastResp,    \* the response sent last
    hist         \* what the accept and reject handlers have done, by request

vars == <<hospitals, requests, nextId, inflight, calls, lastResp, hist>>

Slots == 1..MaxInFlight

Idle == [op |-> "idle"]

PrincipalIds == HospitalIds \cup {AdminId}

\* hist[r].debits[h]: accept handlers of request r whose update changed h's document;
\* hist[r].setAccepted: sessions whose accept wrote Accepted into request r;
\* hist[r].acceptOk, hist[r].rejectOk: sessions that were answered 200.
NoHistory ==
    [debits |-> [h \in HospitalIds |-> 0], setAccepted |-> {},
     acceptOk |-> {}, rejectOk |-> {}]

InitHospitals ==
    [h \in HospitalIds |->
        CASE h = "h1" -> HospitalDoc(0, 5, << >>)
          [] h = "h2" -> HospitalDoc(4, 10, <<Offer("Kidney", "O+", 30),
                                             Offer("Liver", "A+", 50),
                                             Offer("Kidney", "O+", 45)>>)
          [] OTHER -> HospitalDoc(1, 2, <<Offer("Kidney", "O+", 20)>>)]

Init ==
    /\ hospitals = InitHospitals
    /\ requests = << >>
    /\ nextId = 1
    /\ inflight = [i \in Slots |-> Idle]
    /\ calls = 0
    /\ lastResp = NoResponse
    /\ hist = [r \in RequestIds |-> NoHistory]

(***************************************************************************)
(* Handler plumbing.                                                       *)
(***************************************************************************)
HasFreeSlot == \E i \in Slots : inflight[i] = Idle

FreeSlot == CHOOSE i \in Slots : inflight[i] = Idle /\ \A j \in 1..(i - 1) : inflight[j] # Idle

\* The call is answered at once and leaves the store as it was.
Answer(route, resp) ==
    /\ calls' = calls + 1
    /\ lastResp' = Sent(route, resp)
    /\ UNCHANGED <<hospitals, requests, nextId, inflight, hist>>

\* The call passed its checks and is suspended at its next await.
Suspend(handler) ==
    /\ HasFreeSlot
    /\ calls' = calls + 1
    /\ inflight' = [inflight EXCEPT ![FreeSlot] = handler]
    /\ UNCHANGED <<hospitals, requests, nextId, lastResp, hist>>

Handler(op, userId, id, pc, update) ==
    [op |-> op, userId |-> userId, id |-> id, pc |-> pc, update |-> update]

(***************************************************************************)
(* POST /api/requests                                                      *)
(***************************************************************************)
CreateRequest(session, body) ==
    /\ calls < MaxCalls
    /\ IF ~isAuthenticated(session) THEN Answer("create", Unauthorized)
       ELSE IF ~ValidRequest(body) THEN Answer("create", ServerError)
       ELSE /\ nextId <= MaxRequests
            /\ requests' = requests @@ (nextId :> NewRequest(body, session.userId))
            /\ nextId' = nextId + 1
            /\ calls' = calls + 1
            /\ lastResp' = Sent("create", RequestPosted)
            /\ UNCHANGED <<hospitals, inflight, hist>>

(***************************************************************************)
(* POST /api/requests/accept                                               *)
(***************************************************************************)
\* await Request.findById(requestId) and the checks on what it returned.
AcceptFind(session, id) ==
    /\ calls < MaxCalls
    /\ IF ~isAuthenticated(session) THEN Answer("accept", Unauthorized)
       ELSE IF AcceptCheck(requests, id, session.userId) # RequestAccepted
            THEN Answer("accept", AcceptCheck(requests, id, session.userId))
       ELSE Suspend(Handler("accept", session.userId, id, "updateHospital",
                            AcceptUpdate(requests[id])))

\* await Hospital.findByIdAndUpdate(providerHospitalId, update)
AcceptUpdateHospital(i) ==
    /\ inflight[i].op = "accept"
    /\ inflight[i].pc = "updateHospital"
    /\ hospitals' = HospitalFindByIdAndUpdate(hospitals, inflight[i].userId, inflight[i].update)
    /\ hist' = IF inflight[i].userId \in DOMAIN hospitals
               THEN [hist EXCEPT ![inflight[i].id].debits[inflight[i].userId] = @ + 1]
               ELSE hist
    /\ inflight' = [inflight EXCEPT ![i].pc = "updateRequest"]
    /\ UNCHANGED <<requests, nextId, calls, lastResp>>

\* await Request.findByIdAndUpdate(requestId, {status: 'Accepted', providingHospital})
AcceptUpdateRequest(i) ==
    /\ inflight[i].op = "accept"
    /\ inflight[i].pc = "updateRequest"
    /\ requests' = RequestSetStatusAndProvider(requests, inflight[i].id, "Accepted",
                                               inflight[i].userId)
    /\ hist' = [hist EXCEPT ![inflight[i].id].acceptOk = @ \cup {inflight[i].userId},
                            ![inflight[i].id].setAccepted =
                                IF inflight[i].id \in DOMAIN requests
                                THEN @ \cup {inflight[i].userId} ELSE @]
    /\ lastResp' = Sent("accept", RequestAccepted)
    /\ inflight' = [inflight EXCEPT ![i] = Idle]
    /\ UNCHANGED <<hospitals, nextId, calls>>

(***************************************************************************)
(* POST /api/requests/reject                                               *)
(***************************************************************************)
\* await Request.findById(requestId) and the checks on what it returned.
RejectFind(session, id) ==
    /\ calls < MaxCalls
    /\ IF ~isAuthenticated(session) THEN Answer("reject", Unauthorized)
       ELSE IF RejectCheck(requests, id, session.userId) # RequestRejected
            THEN Answer("reject", RejectCheck(requests, id, session.userId))
       ELSE Suspend(Handler("reject", session.userId, id, "updateRequest", NoUpdate))

\* RejectUpdateRequest with the accept handler's inventory update before it.
RejectUpdateRequestDebiting(i) ==
    /\ inflight[i].op = "reject"
    /\ inflight[i].pc = "updateRequest"
    /\ hospitals' = HospitalFindByIdAndUpdate(hospitals, inflight[i].userId,
                        IF inflight[i].id \in DOMAIN requests
                        THEN AcceptUpdate(requests[inflight[i].id]) ELSE NoUpdate)
    /\ requests' = RequestSetStatusAndProvider(requests, inflight[i].id, "Rejected",
                                               inflight[i].userId)
    /\ hist' = [hist EXCEPT ![inflight[i].id].rejectOk = @ \cup {inflight[i].userId}]
    /\ lastResp' = Sent("reject", RequestRejected)
    /\ inflight' = [inflight EXCEPT ![i] = Idle]
    /\ UNCHANGED <<nextId, calls>>

\* await Request.findByIdAndUpdate(requestId, {status: 'Rejected', providingHospital})
RejectUpdateRequest(i) ==
    /\ inflight[i].op = "reject"
    /\ inflight[i].pc = "updateRequest"
    /\ requests' = RequestSetStatusAndProvider(requests, inflight[i].id, "Rejected",
                                               inflight[i].userId)
    /\ hist' = [hist EXCEPT ![inflight[i].id].rejectOk = @ \cup {inflight[i].userId}]
    /\ lastResp' = Sent("reject", RequestRejected)
    /\ inflight' = [inflight EXCEPT ![i] = Idle]
    /\ UNCHANGED <<hospitals, nextId, calls>>

(***************************************************************************)
(* POST /api/requests/cancel                                               *)
(***************************************************************************)
CancelFind(session, id) ==
    /\ calls < MaxCalls
    /\ IF ~isAuthenticated(session) THEN Answer("cancel", Unauthorized)
       ELSE IF CancelCheck(requests, id, session.userId) # RequestCancelled
            THEN Answer("cancel", CancelCheck(requests, id, session.userId))
       ELSE Suspend(Handler("cancel", session.userId, id, "deleteRequest", NoUpdate))

\* await Request.findByIdAndDelete(requestId)
CancelDeleteRequest(i) ==
    /\ inflight[i].op = "cancel"
    /\ inflight[i].pc = "deleteRequest"
    /\ requests' = RequestFindByIdAndDelete(requests, inflight[i].id)
    /\ lastResp' = Sent("cancel", RequestCancelled)
    /\ inflight' = [inflight EXCEPT ![i] = Idle]
    /\ UNCHANGED <<hospitals, nextId, calls, hist>>

(***************************************************************************)
(* POST /api/requests/finalize                                             *)
(***************************************************************************)
FinalizeFind(session, id, finalStatus) ==
    /\ calls < MaxCalls
    /\ IF ~isAuthenticated(session) THEN Answer("finalize", Unauthorized)
       ELSE IF FinalizeCheck(requests, id, session.userId, finalStatus) # RequestFinalized
            THEN Answer("finalize", FinalizeCheck(requests, id, session.userId, finalStatus))
       ELSE Suspend(Handler("finalize", session.userId, id, "updateRequest",
                            [op |-> "status", status |-> finalStatus]))

\* await Request.findByIdAndUpdate(requestId, {status: finalStatus})
FinalizeUpdateRequest(i) ==
    /\ inflight[i].op = "finalize"
    /\ inflight[i].pc = "updateRequest"
    /\ requests' = RequestSetStatus(requests, inflight[i].id, inflight[i].update.status)
    /\ lastResp' = Sent("finalize", RequestFinalized)
    /\ inflight' = [inflight EXCEPT ![i] = Idle]
    /\ UNCHANGED <<hospitals, nextId, calls, hist>>

(***************************************************************************)
(* DELETE /api/admin/hospitals/:id                                         *)
(***************************************************************************)
\* The role check, await Hospital.findById(id) and the check on what it returned.
DeleteFind(session, id) ==
    /\ calls < MaxCalls
    /\ IF ~isAuthenticated(session) THEN Answer("delete", Unauthorized)
       ELSE IF session.userType # "admin" THEN Answer("delete", AccessDenied)
       ELSE IF id \notin DOMAIN hospitals THEN Answer("delete", HospitalNotFound)
       ELSE Suspend(Handler("delete", session.userId, id, "deleteRequests", NoUpdate))

\* await Request.deleteMany({$or: [{requestingHospital: id}, {providingHospital: id}]})
DeleteRequests(i) ==
    /\ inflight[i].op = "delete"
    /\ inflight[i].pc = "deleteRequests"
    /\ requests' = RequestDeleteMany(requests, inflight[i].id)
    /\ inflight' = [inflight EXCEPT ![i].pc = "deleteHospital"]
    /\ UNCHANGED <<hospitals, nextId, calls, lastResp, hist>>

\* await Hospital.findByIdAndDelete(id)
DeleteHospital(i) ==
    /\ inflight[i].op = "delete"
    /\ inflight[i].pc = "deleteHospital"
    /\ hospitals' = HospitalFindByIdAndDelete(hospitals, inflight[i].id)
    /\ lastResp' = Sent("delete", HospitalDeleted)
    /\ inflight' = [inflight EXCEPT ![i] = Idle]
    /\ UNCHANGED <<requests, nextId, calls, hist>>

(***************************************************************************)
(* The server under concurrent calls: logged-in hospitals post the form's   *)
(* requests, any logged-in client calls the other routes at any time, and  *)
(* a suspended handler resumes when its store operation completes.         *)
(***************************************************************************)
Next ==
    \/ \E session \in HospitalSessions, body \in FormBodies : CreateRequest(session, body)
    \/ \E session \in Sessions, id \in RequestIds : AcceptFind(session, id)
    \/ \E i \in Slots : AcceptUpdateHospital(i)
    \/ \E i \in Slots : AcceptUpdateRequest(i)
    \/ \E session \in Sessions, id \in RequestIds : RejectFind(session, id)
    \/ \E i \in Slots : RejectUpdateRequest(i)
    \/ \E session \in Sessions, id \in RequestIds : CancelFind(session, id)
    \/ \E i \in Slots : CancelDeleteRequest(i)
    \/ \E session \in Sessions, id \in RequestIds, finalStatus \in FinalStatuses :
          FinalizeFind(session, id, finalStatus)
    \/ \E i \in Slots : FinalizeUpdateRequest(i)
    \/ \E session \in Sessions, id \in HospitalIds : DeleteFind(session, id)
    \/ \E i \in Slots : DeleteRequests(i)
    \/ \E i \in Slots : DeleteHospital(i)

Spec == Init /\ [][Next]_vars

(***************************************************************************)
(* The same handlers when no other call runs between a handler's awaits:   *)
(* each call is one step, from its first line to its response.  Any client *)
(* calls any route with any body.                                          *)
(***************************************************************************)
AllSessions == Sessions \cup {NoSession}

AcceptCall(session, id) ==
    /\ calls < MaxCalls
    /\ IF ~isAuthenticated(session) THEN Answer("accept", Unauthorized)
       ELSE IF AcceptCheck(requests, id, session.userId) # RequestAccepted
            THEN Answer("accept", AcceptCheck(requests, id, session.userId))
       ELSE /\ hospitals' = HospitalFindByIdAndUpdate(hospitals, session.userId,
                                                      AcceptUpdate(requests[id]))
            /\ requests' = RequestSetStatusAndProvider(requests, id, "Accepted",
                                                       session.userId)
            /\ hist' = [hist EXCEPT
                          ![id].debits = IF session.userId \in DOMAIN hospitals
                                         THEN [@ EXCEPT ![session.userId] = @ + 1]
                                         ELSE @,
                          ![id].acceptOk = @ \cup {session.userId},
                          ![id].setAccepted = @ \cup {session.userId}]
            /\ calls' = calls + 1
            /\ lastResp' = Sent("accept", RequestAccepted)
            /\ UNCHANGED <<nextId, inflight>>

RejectCall(session, id) ==
    /\ calls < MaxCalls
    /\ IF ~isAuthenticated(session) THEN Answer("reject", Unauthorized)
       ELSE IF RejectCheck(requests, id, session.userId) # RequestRejected
            THEN Answer("reject", RejectCheck(requests, id, session.userId))
       ELSE /\ requests' = RequestSetStatusAndProvider(requests, id, "Rejected",
                                                       session.userId)
            /\ hist' = [hist EXCEPT ![id].rejectOk = @ \cup {session.userId}]
            /\ calls' = calls + 1
            /\ lastResp' = Sent("reject", RequestRejected)
            /\ UNCHANGED <<hospitals, nextId, inflight>>

CancelCall(session, id) ==
    /\ calls < MaxCalls
    /\ IF ~isAuthenticated(session) THEN Answer("cancel", Unauthorized)
       ELSE IF CancelCheck(requests, id, session.userId) # RequestCancelled
            THEN Answer("cancel", CancelCheck(requests, id, session.userId))
       ELSE /\ requests' = RequestFindByIdAndDelete(requests, id)
            /\ calls' = calls + 1
            /\ lastResp' = Sent("cancel", RequestCancelled)
            /\ UNCHANGED <<hospitals, nextId, inflight, hist>>

FinalizeCall(session, id, finalStatus) ==
    /\ calls < MaxCalls
    /\ IF ~isAuthenticated(session) THEN Answer("finalize", Unauthorized)
       ELSE IF FinalizeCheck(requests, id, session.userId, finalStatus) # RequestFinalized
            THEN Answer("finalize", FinalizeCheck(requests, id, session.userId, finalStatus))
       ELSE /\ requests' = RequestSetStatus(requests, id, finalStatus)
            /\ calls' = calls + 1
            /\ lastResp' = Sent("finalize", RequestFinalized)
            /\ UNCHANGED <<hospitals, nextId, inflight, hist>>

DeleteCall(session, id) ==
    /\ calls < MaxCalls
    /\ IF ~isAuthenticated(session) THEN Answer("delete", Unauthorized)
       ELSE IF session.userType # "admin" THEN Answer("delete", AccessDenied)
       ELSE IF id \notin DOMAIN hospitals THEN Answer("delete", HospitalNotFound)
       ELSE /\ requests' = RequestDeleteMany(requests, id)
            /\ hospitals' = HospitalFindByIdAndDelete(hospitals, id)
            /\ calls' = calls + 1
            /\ lastResp' = Sent("delete", HospitalDeleted)
            /\ UNCHANGED <<nextId, inflight, hist>>

NextSeq ==
    \/ \E session \in AllSessions, body \in Bodies : CreateRequest(session, body)
    \/ \E session \in AllSessions, id \in RequestIds : AcceptCall(session, id)
    \/ \E session \in AllSessions, id \in RequestIds : RejectCall(session, id)
    \/ \E session \in AllSessions, id \in RequestIds : CancelCall(session, id)
    \/ \E session \in AllSessions, id \in RequestIds, finalStatus \in FinalStatuses :
          FinalizeCall(session, id, finalStatus)
    \/ \E session \in AllSessions, id \in HospitalIds : DeleteCall(session, id)

SpecSeq == Init /\ [][NextSeq]_vars

(***************************************************************************)
(* Vocabulary of the properties.                                           *)
(***************************************************************************)
\* Position of a status in Open -> {Accepted | Rejected} -> Closed.
Rank(status) ==
    CASE status = "Open" -> 0
      [] status = "Accepted" -> 1
      [] status = "Rejected" -> 1
      [] OTHER -> 2

AcceptInFlight(id) ==
    \E i \in Slots : inflight[i].op = "accept" /\ inflight[i].id = id

\* The hospitals whose inventory an accept of request id has debited.
DebitedFor(id) == {h \in HospitalIds : hist[id].debits[h] > 0}

\* The step answered the call and left the store and the handlers as they were.
NothingChanged ==
    /\ requests' = requests
    /\ hospitals' = hospitals
    /\ inflight' = inflight
    /\ hist' = hist

\* The accept (reject) handler reads a request whose requester is the caller.
SelfAccept(session, id) ==
    /\ AcceptFind(session, id)
    /\ id \in DOMAIN requests
    /\ requests[id].requestingHospital = session.userId

SelfReject(session, id) ==
    /\ RejectFind(session, id)
    /\ id \in DOMAIN requests
    /\ requests[id].requestingHospital = session.userId

\* A hospital that still has its document accepts an Open request of another
\* requester, with no other call between the handler's awaits.
AcceptSucceeds(session, id) ==
    /\ AcceptCall(session, id)
    /\ isAuthenticated(session)
    /\ AcceptCheck(requests, id, session.userId) = RequestAccepted
    /\ session.userId \in DOMAIN hospitals

\* Every hospital but p keeps its document, and no hospital appears or disappears.
OthersUnchanged(p) ==
    /\ DOMAIN hospitals' = DOMAIN hospitals
    /\ \A h \in DOMAIN hospitals \ {p} : hospitals'[h] = hospitals[h]

\* The offers of a list that the condition of accept's $pull matches, by position.
MatchingOffers(offers, organName, bloodGroup) ==
    {k \in DOMAIN offers :
        offers[k].organName = organName /\ offers[k].bloodGroup = bloodGroup}

\* The offers of a list that the condition does not match, in their order.
OtherOffers(offers, organName, bloodGroup) ==
    LET Other(offer) == ~(offer.organName = organName /\ offer.bloodGroup = bloodGroup)
    IN  SelectSeq(offers, Other)

(***************************************************************************)
(* C1.  A request's status never moves backward: no step of a hospital's   *)
(* call takes a stored request from a later status of                      *)
(* Open -> {Accepted | Rejected} -> Closed to an earlier one.  (The        *)
(* claim's weakest reading: forward jumps, deletions of requests that are  *)
(* not Open and steps that make the admin the provider are not counted.)   *)
(***************************************************************************)
C1_NoBackwardTransition ==
    [][\A id \in DOMAIN requests \cap DOMAIN requests' :
          requests'[id].providingHospital # AdminId =>
              Rank(requests'[id].status) >= Rank(requests[id].status)]_vars

(***************************************************************************)
(* C2.  Once the concurrent accepts of a request have all returned, at     *)
(* most one hospital was answered success and at most one hospital's       *)
(* inventory was debited for the request.                                  *)
(***************************************************************************)
C2_OneAcceptOneDebit ==
    \A id \in RequestIds :
        ~AcceptInFlight(id) =>
            /\ Cardinality(hist[id].acceptOk \cap HospitalIds) <= 1
            /\ Cardinality(DebitedFor(id)) <= 1

(***************************************************************************)
(* C3.  For every request at most one accept or reject call of a hospital  *)
(* is answered success, and once its accepts have returned a request is    *)
(* not both debited against a hospital and recorded as Rejected.           *)
(***************************************************************************)
C3_AtMostOneSuccess ==
    \A id \in RequestIds :
        /\ Cardinality(hist[id].acceptOk \cap HospitalIds)
             + Cardinality(hist[id].rejectOk \cap HospitalIds) <= 1
        /\ (~AcceptInFlight(id) /\ id \in DOMAIN requests
              /\ requests[id].status = "Rejected") => DebitedFor(id) = {}

(***************************************************************************)
(* C4.  Every stored request has providingHospital null exactly when its   *)
(* status is Open.                                                         *)
(***************************************************************************)
C4_ProviderNullIffOpen ==
    \A id \in DOMAIN requests :
        (requests[id].providingHospital = NULL) <=> (requests[id].status = "Open")

(***************************************************************************)
(* C5.  No stored request has its requester as its provider.               *)
(***************************************************************************)
C5_NoSelfProvider ==
    \A id \in DOMAIN requests :
        requests[id].providingHospital # requests[id].requestingHospital

(***************************************************************************)
(* C6.  As claimed: every accept or reject of a request by its requester   *)
(* is answered "cannot accept (reject) your own request", whatever the     *)
(* request's status, and changes nothing.                                  *)
(***************************************************************************)
C6_SelfActionWhateverStatus ==
    [][\A session \in Sessions, id \in RequestIds :
          /\ SelfAccept(session, id) =>
                lastResp' = Sent("accept", CannotAcceptOwn) /\ NothingChanged
          /\ SelfReject(session, id) =>
                lastResp' = Sent("reject", CannotRejectOwn) /\ NothingChanged]_vars

(***************************************************************************)
(* C6, amended.  Every accept or reject of a request by its requester      *)
(* fails and changes nothing: with "cannot accept (reject) your own        *)
(* request" when the request is Open, with "no longer open" otherwise.     *)
(***************************************************************************)
C6_SelfActionFails ==
    [][\A session \in Sessions, id \in RequestIds :
          /\ SelfAccept(session, id) =>
                /\ lastResp' = Sent("accept", IF requests[id].status = "Open"
                                              THEN CannotAcceptOwn ELSE NoLongerOpen)
                /\ NothingChanged
          /\ SelfReject(session, id) =>
                /\ lastResp' = Sent("reject", IF requests[id].status = "Open"
                                              THEN CannotRejectOwn ELSE NoLongerOpen)
                /\ NothingChanged]_vars

\* A requester was just refused the accept of its own Open request.
C6_Witness ==
    /\ lastResp = Sent("accept", CannotAcceptOwn)
    /\ \E id \in DOMAIN requests :
          requests[id].status = "Open" /\ requests[id].providingHospital = NULL
    /\ hospitals = InitHospitals

(***************************************************************************)
(* C7.  Every hospital's oxygen total and blood counts are >= 0.           *)
(***************************************************************************)
C7_CountsNonNegative ==
    \A h \in DOMAIN hospitals :
        /\ hospitals[h].oxygenCylinders >= 0
        /\ \A g \in BloodGroups : hospitals[h].bloodAvailability[g] >= 0

(***************************************************************************)
(* C8.  An uninterleaved successful accept of an Open Blood request (g, q) *)
(* by hospital p lowers p's bloodAvailability[g] by exactly q, leaves p's  *)
(* other fields and every other hospital unchanged, and sets the request   *)
(* to Accepted with providingHospital p; likewise oxygenCylinders for an   *)
(* Oxygen request.                                                         *)
(***************************************************************************)
C8_AcceptDebitsProviderOnly ==
    [][\A session \in AllSessions, id \in RequestIds :
          AcceptSucceeds(session, id) =>
            LET p == session.userId
                r == requests[id]
            IN  /\ requests'[id].status = "Accepted"
                /\ requests'[id].providingHospital = p
                /\ OthersUnchanged(p)
                /\ r.requestType = "Blood" =>
                     /\ hospitals'[p].bloodAvailability[r.details.bloodGroup]
                          = hospitals[p].bloodAvailability[r.details.bloodGroup]
                              - r.details.quantity
                     /\ \A g \in BloodGroups \ {r.details.bloodGroup} :
                          hospitals'[p].bloodAvailability[g]
                            = hospitals[p].bloodAvailability[g]
                     /\ hospitals'[p].oxygenCylinders = hospitals[p].oxygenCylinders
                     /\ hospitals'[p].organAvailability = hospitals[p].organAvailability
                /\ r.requestType = "Oxygen" =>
                     /\ hospitals'[p].oxygenCylinders
                          = hospitals[p].oxygenCylinders - r.details.quantity
                     /\ hospitals'[p].bloodAvailability = hospitals[p].bloodAvailability
                     /\ hospitals'[p].organAvailability
                          = hospitals[p].organAvailability]_vars

\* The scenario: h1 asked for 3 units of O+, h2 (10 units) accepted and has 7.
C8_Witness ==
    /\ lastResp = Sent("accept", RequestAccepted)
    /\ \E id \in DOMAIN requests :
          /\ requests[id].requestType = "Blood"
          /\ requests[id].requestingHospital = "h1"
          /\ requests[id].status = "Accepted"
          /\ requests[id].providingHospital = "h2"
    /\ "h2" \in DOMAIN hospitals
    /\ hospitals["h2"].bloodAvailability["O+"] = 7
    /\ hospitals["h1"].bloodAvailability["O+"] = 5

(***************************************************************************)
(* C9.  An accept that reads a request that is not Open is answered "no    *)
(* longer open" and changes nothing: the request, every inventory and the  *)
(* debits stay as they were and the handler is over.                       *)
(***************************************************************************)
C9_AcceptOfNonOpenChangesNothing ==
    [][\A session \in Sessions, id \in RequestIds :
          (/\ AcceptFind(session, id)
           /\ id \in DOMAIN requests
           /\ requests[id].status # "Open") =>
              lastResp' = Sent("accept", NoLongerOpen) /\ NothingChanged]_vars

\* The scenario: after h2 accepted h1's request, a later accept was refused
\* and h2 still has 7 units.
C9_Witness ==
    /\ lastResp = Sent("accept", NoLongerOpen)
    /\ \E id \in DOMAIN requests :
          /\ requests[id].status = "Accepted"
          /\ requests[id].providingHospital = "h2"
          /\ requests[id].requestType = "Blood"
          /\ hist[id].debits["h2"] = 1
    /\ "h2" \in DOMAIN hospitals
    /\ hospitals["h2"].bloodAvailability["O+"] = 7

(***************************************************************************)
(* C10.  With no accept in flight, a hospital's inventory was debited for  *)
(* a request exactly when an accept by that hospital set the request to    *)
(* Accepted.                                                               *)
(***************************************************************************)
C10_DebitIffAccepted ==
    (\A i \in Slots : inflight[i].op # "accept") =>
        \A id \in RequestIds, p \in HospitalIds :
            (hist[id].debits[p] > 0) <=> (p \in hist[id].setAccepted)

(***************************************************************************)
(* C11.  Rejected and Closed are terminal: once a reject call has set a    *)
(* request to Rejected, or a finalize call has set an accepted request to  *)
(* Closed, no accept, reject, cancel or finalize call changes or deletes   *)
(* it.  (Requests created with a status of the client's choosing, requests *)
(* the admin posted or answered and the admin's cascade are not counted.)  *)
(***************************************************************************)
C11_TerminalStatuses ==
    [][lastResp'.route # "delete" =>
          \A id \in DOMAIN requests :
              (/\ requests[id].status \in {"Rejected", "Closed"}
               /\ requests[id].requestingHospital \in HospitalIds
               /\ requests[id].providingHospital \in HospitalIds
               /\ hist[id].rejectOk \cup hist[id].acceptOk # {}) =>
                  id \in DOMAIN requests' /\ requests'[id] = requests[id]]_vars

(***************************************************************************)
(* C12.  Every request that POST /api/requests stores for a hospital has   *)
(* status Open, no providingHospital and the caller as requestingHospital, *)
(* whatever the body says.                                                 *)
(***************************************************************************)
C12_CreateForcesFields ==
    [][\A session \in HospitalSessions, body \in Bodies :
          (CreateRequest(session, body) /\ nextId \in DOMAIN requests') =>
              /\ requests'[nextId].status = "Open"
              /\ requests'[nextId].providingHospital = NULL
              /\ requests'[nextId].requestingHospital = session.userId]_vars

(***************************************************************************)
(* C13.  A cancel of a stored request goes on to delete it exactly when    *)
(* the caller is its requestingHospital: the requester's handler deletes   *)
(* the request and answers "cancelled", leaving every inventory and every  *)
(* other request alone; anyone else is answered 403 "Not authorized" and   *)
(* nothing changes.                                                        *)
(***************************************************************************)
C13_CancelOnlyByRequester ==
    [][/\ \A session \in Sessions, id \in RequestIds :
            (CancelFind(session, id) /\ id \in DOMAIN requests) =>
                IF requests[id].requestingHospital = session.userId
                THEN /\ \E i \in Slots :
                          /\ inflight[i] = Idle
                          /\ inflight'[i] = Handler("cancel", session.userId, id,
                                                     "deleteRequest", NoUpdate)
                     /\ requests' = requests /\ hospitals' = hospitals
                ELSE lastResp' = Sent("cancel", NotAuthorized) /\ NothingChanged
       /\ \A i \in Slots :
            CancelDeleteRequest(i) =>
                /\ inflight[i].id \notin DOMAIN requests'
                /\ \A id \in DOMAIN requests \ {inflight[i].id} :
                      id \in DOMAIN requests' /\ requests'[id] = requests[id]
                /\ hospitals' = hospitals
                /\ lastResp' = Sent("cancel", RequestCancelled)]_vars

\* The scenario: a hospital posted a request and cancelled it while it was
\* Open (no other call was made); the request is gone.
C13_Witness ==
    /\ lastResp = Sent("cancel", RequestCancelled)
    /\ calls = 2
    /\ nextId = 2
    /\ 1 \notin DOMAIN requests
    /\ hospitals = InitHospitals
    /\ \A i \in Slots : inflight[i] = Idle

(***************************************************************************)
(* C14.  A finalize is answered 404 when the request is absent, 403 when   *)
(* the caller is not its requestingHospital, and 400 when the requester    *)
(* asks for a final status other than Closed; each of these changes        *)
(* nothing, and no step of a finalize, failing or not, changes a           *)
(* hospital's inventory.                                                   *)
(***************************************************************************)
C14_FinalizeFailures ==
    [][/\ \A session \in Sessions, id \in RequestIds, finalStatus \in FinalStatuses :
            FinalizeFind(session, id, finalStatus) =>
                /\ hospitals' = hospitals
                /\ id \notin DOMAIN requests =>
                      lastResp' = Sent("finalize", RequestNotFound) /\ NothingChanged
                /\ (id \in DOMAIN requests
                      /\ requests[id].requestingHospital # session.userId) =>
                      lastResp' = Sent("finalize", FinalizeNotAuthorized) /\ NothingChanged
                /\ (id \in DOMAIN requests
                      /\ requests[id].requestingHospital = session.userId
                      /\ finalStatus # "Closed") =>
                      lastResp' = Sent("finalize", InvalidFinalStatus) /\ NothingChanged
       /\ \A i \in Slots : FinalizeUpdateRequest(i) => hospitals' = hospitals]_vars

\* The scenario: h1's request was accepted by h2, and a hospital that is not
\* h1 was refused its finalization.
C14_Witness ==
    /\ lastResp = Sent("finalize", FinalizeNotAuthorized)
    /\ \E id \in DOMAIN requests :
          /\ requests[id].requestingHospital = "h1"
          /\ requests[id].status = "Accepted"
          /\ requests[id].providingHospital = "h2"

(***************************************************************************)
(* C15.  No step of a reject call, successful or failing, changes the      *)
(* hospitals collection: every hospital's oxygen total, blood counts and   *)
(* organ offers are after the step what they were before it.               *)
(***************************************************************************)
C15_RejectKeepsInventories ==
    [][/\ \A session \in Sessions, id \in RequestIds :
            RejectFind(session, id) => hospitals' = hospitals
       /\ \A i \in Slots : RejectUpdateRequest(i) => hospitals' = hospitals]_vars

\* h2 rejected h1's request and every inventory is what it was at the start.
C15_Witness ==
    /\ lastResp = Sent("reject", RequestRejected)
    /\ \E id \in DOMAIN requests :
          /\ requests[id].requestingHospital = "h1"
          /\ requests[id].status = "Rejected"
          /\ requests[id].providingHospital = "h2"
          /\ hist[id].rejectOk = {"h2"}
          /\ DebitedFor(id) = {}
    /\ hospitals = InitHospitals

(***************************************************************************)
(* C16.  Once the admin's deletion of a hospital has completed, no stored  *)
(* request has that hospital as its requestingHospital or its              *)
(* providingHospital.                                                      *)
(***************************************************************************)
C16_NoRequestOfDeletedHospital ==
    \A h \in HospitalIds \ DOMAIN hospitals :
        \A id \in DOMAIN requests :
            /\ requests[id].requestingHospital # h
            /\ requests[id].providingHospital # h

(***************************************************************************)
(* C17.  The admin never acts as a provider: no stored request has the     *)
(* admin's identity as its providingHospital.                              *)
(***************************************************************************)
C17_AdminNeverProvider ==
    \A id \in DOMAIN requests : requests[id].providingHospital # AdminId

(***************************************************************************)
(* C18.  A stored request's status becomes Closed only from Accepted: no   *)
(* step takes an Open or Rejected request to Closed.                       *)
(***************************************************************************)
C18_ClosedOnlyFromAccepted ==
    [][\A id \in DOMAIN requests \cap DOMAIN requests' :
          (requests'[id].status = "Closed" /\ requests[id].status # "Closed") =>
              requests[id].status = "Accepted"]_vars

(***************************************************************************)
(* C19.  An uninterleaved successful accept of an Organ request (o, g) by  *)
(* a hospital that holds k >= 1 offers matching (o, g) leaves it k - 1     *)
(* matching offers, and leaves its other offers as they were.              *)
(***************************************************************************)
C19_AcceptRemovesOneOffer ==
    [][\A session \in HospitalSessions, id \in RequestIds :
          (/\ AcceptSucceeds(session, id)
           /\ requests[id].requestType = "Organ"
           /\ requests[id].requestingHospital \in HospitalIds) =>
            LET o == requests[id].details.organName
                g == requests[id].details.bloodGroup
                before == hospitals[session.userId].organAvailability
                after == hospitals'[session.userId].organAvailability
            IN  /\ Cardinality(MatchingOffers(before, o, g)) >= 1 =>
                      Cardinality(MatchingOffers(after, o, g))
                          = Cardinality(MatchingOffers(before, o, g)) - 1
                /\ OtherOffers(after, o, g) = OtherOffers(before, o, g)]_vars

====
